---- MODULE Spec2Model ----
(***************************************************************************)
(* Session lifecycle of SintesisPasarelaCore (the universal client):       *)
(* init / retry / refresh / destroy / render, the scheduled token refresh  *)
(* and the two backend calls, as interleavings of JavaScript tasks.        *)
(* One action is one task run to its next suspension point (await).        *)
(* Spec is the manager under a call budget; ObserverSpec adds observers    *)
(* that throw; RenderSpec covers every environment and render mode;        *)
(* TransportSpec is UniversalHttpClient.request, one request at a time;    *)
(* ClientsSpec is either client, the universal one or SintesisPasarela     *)
(* 1.0.0 (no retry, no timer, no loading guard).                           *)
(***************************************************************************)
EXTENDS Integers, Sequences, FiniteSets, Bags, TLC

\* ------------------------------------------------------------- constants
maxRetries == 3
DefaultExpiresIn == 1800
RefreshMargin == 60
BackoffUnit == 1000
DefaultTimeout == 30000

\* bounds of the model: the user makes up to MaxCalls calls while up to
\* MaxAttempts attempts are started, or one call and up to MaxSoloAttempts
MaxCalls == 2
MaxAttempts == 3
MaxSoloAttempts == 5

\* ... and, where the observers may throw, up to ObserverCalls calls and
\* ObserverAttempts attempts
ObserverCalls == 1
ObserverAttempts == 2

\* ... and, over every environment and mode, up to RenderCalls calls of
\* render() and RenderAttempts attempts
RenderCalls == 1
RenderAttempts == 2

\* ... and, for either client, up to ClientCalls calls and ClientAttempts
\* attempts
ClientCalls == 2
ClientAttempts == 2

Null == 0
\* the outcome of an accessor that throws "SDK no inicializado"
NotInitialized == -1

\* expiresIn values the authenticate endpoint may return (0: field absent)
ExpiresInValues == {0, 30}
Environments == {"web", "node"}
OptModes == {"none", "webview"}
ConfigModes == {"auto"}
\* config.timeout values (0: absent)
TimeoutValues == {0, 5000}
\* every kind of environment the detection tells apart for the transport and
\* the renderers, and every render mode
AllEnvironments == {"web", "worker", "node", "react-native"}
AllModes == {"auto", "iframe", "webview", "api-only"}
AllOptModes == {"none"} \cup AllModes
\* the HTTP statuses and the bodies ("json": valid JSON, "garbage": not JSON)
\* a server answers with
Statuses == {200, 401, 500}
Bodies == {"json", "garbage"}
\* what a registered observer callback does when it is called
ObserverBehaviours == {"returns", "throws"}
\* the two clients: SintesisPasarelaCore 2.0.1 and SintesisPasarela 1.0.0
Clients == {"universal", "v1"}
\* whether render() of SintesisPasarela finds its container
Containers == {"found", "missing"}

VARIABLES
    accessToken,     \* this.accessToken (Null or the serial of a token)
    embedUrl,        \* this.embedUrl (Null or the serial of the token it was issued for)
    isInitialized,   \* this.isInitialized
    isLoading,       \* this.isLoading
    retryCount,      \* this.retryCount
    refreshTimeout,  \* this._refreshTimeout (Null or the id of the last timer set)
    timers,          \* pending setTimeout timers of _scheduleTokenRefresh
    frames,          \* suspended async calls, a bag of [kind, pc, bearer, ms, mode];
                     \* bearer: the token a generate-link request carries, or
                     \* the src of an iframe that is loading
    environment,     \* detected environment
    configMode,      \* this.config.mode
    autoInit,        \* this.config.autoInit
    apiKeyValid,     \* whether the backend accepts config.apiKey
    observer,        \* what config.onSuccess/onError/onLoad/onTokenExpired do
    client,          \* which class the manager is an instance of
    authReqs,        \* authenticate requests issued
    linkReqs,        \* generate-link requests issued
    authFails,       \* authenticate attempts that failed
    linkFails,       \* generate-link attempts that failed
    tokensIssued,    \* tokens the backend has issued
    nSuccess,        \* onSuccess notifications
    nError,          \* onError notifications
    callCap,         \* calls the user may make in this run
    attemptCap,      \* attempts that may be started in this run
    nCalls,          \* calls made by the user
    onlyInit,        \* every call of the user so far was init()
    everDestroyed,   \* the user has called destroy()
    destroyed,       \* destroy() was the user's last call
    refreshMark,     \* tokensIssued at the last refresh() (-1: never refreshed)
    wire,            \* the request UniversalHttpClient.request is working on
    ev               \* what the last task made observable

session == <<accessToken, embedUrl, isInitialized, isLoading, retryCount>>
sched == <<refreshTimeout, timers>>
config == <<environment, configMode, autoInit, apiKeyValid, observer, client>>
counters == <<authReqs, linkReqs, authFails, linkFails, tokensIssued, nSuccess, nError>>
caps == <<callCap, attemptCap>>
history == <<nCalls, onlyInit, everDestroyed, destroyed, refreshMark>>
vars == <<session, sched, frames, config, caps, wire, counters, history, ev>>

Budgets == {<<MaxCalls, MaxAttempts>>, <<1, MaxSoloAttempts>>}

Frame(kind, pc, bearer, ms, mode) ==
    [kind |-> kind, pc |-> pc, bearer |-> bearer, ms |-> ms, mode |-> mode]

Event(type, kind, val, url, tok, err) ==
    [type |-> type, kind |-> kind, val |-> val, url |-> url, tok |-> tok, err |-> err]

\* a task that settles no call and notifies no observer of interest
Quiet == Event("none", "", "", Null, Null, 0)

\* the suspended calls other than `fr`, and with `fr` added
Without(fr) == frames (-) SetToBag({fr})

Put(rest, fr) == rest (+) SetToBag({fr})

Suspended == BagToSet(frames)

\* ------------------------------------------------------- pure operators

\* InitReturnsEarly with one of its two early returns missing
InitGuardLoadingOnly(loading, initd, tok) == loading

InitGuardReadyOnly(loading, initd, tok) == initd /\ tok # Null

\* init(): the two early returns (isLoading; isInitialized && accessToken)
InitReturnsEarly(loading, initd, tok) == loading \/ (initd /\ tok # Null)

\* init() catch: if (this.retryCount < this.maxRetries)
CanRetry(rc) == rc < maxRetries

\* BackoffMs as a constant backoff, not growing with retryCount
BackoffMsFlat(rc) == BackoffUnit

\* init() catch: this._delay(1000 * this.retryCount), after retryCount++
BackoffMs(rc) == BackoffUnit * rc

\* _authenticate: response.data.expiresIn || 1800
ExpiresInOrDefault(e) == IF e = 0 THEN DefaultExpiresIn ELSE e

\* _scheduleTokenRefresh: refreshTime = (expiresIn - 60) * 1000
RefreshTime(e) == (e - RefreshMargin) * 1000

\* ScheduledTimers without the clearTimeout of the previous timer
ScheduledTimersKeep(ts, handle, id, e) ==
    ts \cup {[id |-> id, ms |-> RefreshTime(e)]}

\* _scheduleTokenRefresh: clearTimeout(previous); this._refreshTimeout = setTimeout(..)
ScheduledTimers(ts, handle, id, e) ==
    {t \in ts : t.id # handle} \cup {[id |-> id, ms |-> RefreshTime(e)]}

\* ClearedTimers as it would be if destroy() left the timer running
ClearedTimersNone(ts, handle) == ts

\* destroy(): if (this._refreshTimeout) clearTimeout(this._refreshTimeout)
ClearedTimers(ts, handle) == {t \in ts : t.id # handle}

\* DestroyFrames as it would be if destroy() cancelled what is in flight
DestroyCancelsFrames(fr) == EmptyBag

\* destroy() leaves the suspended calls alone (it holds no reference to them)
DestroyFrames(fr) == fr

\* _generateEmbedLink: the URL the backend issues for the bearer token sent
UrlFor(bearer) == bearer

\* Mode as it would be if the configured mode won over options.mode
ModeConfigWins(optMode) == configMode

\* render(): options.mode || this.config.mode
Mode(optMode) == IF optMode # "none" THEN optMode ELSE configMode

\* render() switch and _autoRender: the renderer a mode selects
Renderer(mode, env) ==
    CASE mode = "iframe" -> "iframe"
      [] mode = "webview" -> "webview"
      [] mode = "api-only" -> "api"
      [] OTHER -> IF env = "web" THEN "iframe"
                  ELSE IF env = "react-native" THEN "webview" ELSE "api"

\* TriggerCallback without its try/catch
TriggerCallbackUnguarded(behaviour) ==
    IF behaviour = "throws" THEN "thrown" ELSE "returned"

\* _triggerCallback: the callback is called inside try/catch; its exception is
\* logged and goes no further
TriggerCallback(behaviour) ==
    IF behaviour = "throws" THEN "logged" ELSE "returned"

\* getAccessToken as it would be if it tested the token, not isInitialized
getAccessTokenIfHeld == IF accessToken = Null THEN NotInitialized ELSE accessToken

\* getAccessToken(): throws unless isInitialized, else returns accessToken
getAccessToken == IF ~isInitialized THEN NotInitialized ELSE accessToken

\* getEmbedUrl(): throws unless isInitialized, else returns embedUrl
getEmbedUrl == IF ~isInitialized THEN NotInitialized ELSE embedUrl

\* getStatus(): the snapshot of the session fields
getStatus ==
    [isInitialized |-> isInitialized,
     isLoading |-> isLoading,
     hasAccessToken |-> accessToken # Null,
     hasEmbedUrl |-> embedUrl # Null,
     retryCount |-> retryCount]

\* What the caller of kind `kind` does once its init() has settled with `out`
\* ("success": the result object, "noop": an early return, "rejected"):
\* the suspended calls that remain.
ContFrames(rest, kind, mode, out, url) ==
    IF kind = "render" /\ out # "rejected"
          /\ Renderer(Mode(mode), environment) = "iframe" /\ environment = "web"
    THEN Put(rest, Frame("render", "iframe", url, 0, mode))
    ELSE rest

\* ... what it makes observable. The renderers notify onLoad, the timer
\* notifies onTokenExpired and a rejected init() has notified onError: were an
\* observer's exception to leave _triggerCallback, it would replace the outcome
\* (val "observer").
ContEvent(kind, mode, out, err, url, tok) ==
    LET thrown == TriggerCallback(observer) = "thrown" IN
    CASE kind = "render" /\ out # "rejected" ->
            LET r == Renderer(Mode(mode), environment) IN
            IF r = "iframe"
            THEN IF environment = "web"
                 THEN Quiet
                 ELSE Event("rejected", "render", "unsupported", Null, Null, 0)
            ELSE IF thrown
                 THEN Event("rejected", "render", "observer", Null, Null, 0)
                 ELSE Event("rendered", "render", r, url, tok, 0)
      [] kind = "timer" /\ out # "rejected" ->
            IF thrown
            THEN Event("caught", "timer", "observer", Null, Null, 0)
            ELSE Event("onTokenExpired", "timer", out, url, tok, 0)
      [] kind \in {"timer", "ctor"} /\ out = "rejected" ->
            Event("caught", kind, IF thrown THEN "observer" ELSE out,
                  Null, Null, err)
      [] OTHER ->
            Event(IF out = "rejected" THEN "rejected" ELSE "resolved",
                  kind, IF out = "rejected" /\ thrown THEN "observer" ELSE out,
                  url, tok, err)

\* ... and the onError notifications after it: the constructor's .catch and the
\* timer's catch both call _handleError again
ContErrors(kind, out, errs) ==
    IF out = "rejected" /\ kind \in {"timer", "ctor"} THEN errs + 1 ELSE errs

\* ----------------------------------------------------------- transport

\* the calls of request(endpoint, options): _authenticate, _generateEmbedLink,
\* and a call that passes no headers
AuthenticateCall ==
    [endpoint |-> "/auth/authenticate",
     options |-> [method |-> "GET", headers |-> {"X-API-KEY"}]]

GenerateLinkCall ==
    [endpoint |-> "/embed/generate-link",
     options |-> [method |-> "POST", headers |-> {"Authorization"}]]

PlainCall ==
    [endpoint |-> "/auth/authenticate", options |-> [method |-> "GET"]]

Calls == {AuthenticateCall, GenerateLinkCall, PlainCall}

\* constructor: timeout: config.timeout || 30000
ConfigTimeout(t) == IF t = 0 THEN DefaultTimeout ELSE t

\* request: method: options.method || "GET"
RequestMethod(options) ==
    IF "method" \in DOMAIN options THEN options.method ELSE "GET"

\* request: headers: {"Content-Type": "application/json", ...options.headers}
MergedHeaders(options) ==
    {"Content-Type"} \cup
        (IF "headers" \in DOMAIN options THEN options.headers ELSE {})

\* request: requestOptions = {method, headers: <merged>, ...options}: the
\* spread of options comes last, so that a `headers` of the caller replaces
\* the merged ones
RequestHeaders(options) ==
    IF "headers" \in DOMAIN options THEN options.headers
                                    ELSE MergedHeaders(options)

\* request: the fetch the environment selects
FetchVia(env) ==
    IF env = "node" THEN "_nodeFetch"
    ELSE IF env = "react-native" THEN "_reactNativeFetch" ELSE "_browserFetch"

\* _browserFetch: setTimeout(() => controller.abort(), config.timeout), given
\* an AbortController; _nodeFetch and _reactNativeFetch set no timer
AbortTimer(env, controller, timeout) ==
    IF FetchVia(env) = "_browserFetch" /\ controller THEN timeout ELSE Null

\* _browserFetch: if (!response.ok) throw; the other two return any response
ChecksStatus(env) == FetchVia(env) = "_browserFetch"

\* response.ok
IsOk(status) == status >= 200 /\ status <= 299

\* what a rejected fetch is reported as: _nodeFetch turns every error into
\* "node-fetch no disponible"
FetchFailure(env, cause) ==
    IF FetchVia(env) = "_nodeFetch" THEN "node-fetch" ELSE cause

\* the transport with no request, given typeof AbortController and config.timeout
IdleWire(controller, timeout) ==
    [pc |-> "idle", endpoint |-> "", method |-> "", headers |-> {},
     timer |-> Null, status |-> 0, body |-> "", result |-> "none", cause |-> "",
     controller |-> controller, timeout |-> timeout]

\* request's catch: every error leaves as Error("Error de red (env): cause")
Failed(w, cause) ==
    [w EXCEPT !.pc = "failed", !.timer = Null, !.result = "network-error",
              !.cause = cause]

\* ------------------------------------------------------------- actions

\* init() entered by a call of kind `kind` (`rest`: the other suspended calls),
\* the session fields being initd/tok/url at that moment: either an early
\* return, after which the caller continues, or the start of an attempt
\* (isLoading, the authenticate request).
EnterInit(rest, kind, mode, initd, tok, url) ==
    IF InitReturnsEarly(isLoading, initd, tok)
    THEN /\ isLoading' = isLoading
         /\ authReqs' = authReqs
         /\ frames' = ContFrames(rest, kind, mode, "noop", url)
         /\ ev' = ContEvent(kind, mode, "noop", 0, url, tok)
    ELSE /\ authReqs < attemptCap
         /\ isLoading' = TRUE
         /\ authReqs' = authReqs + 1
         /\ frames' = Put(rest, Frame(kind, "auth", Null, 0, mode))
         /\ ev' = Quiet

UserCall(name) ==
    /\ nCalls < callCap
    /\ nCalls' = nCalls + 1
    /\ onlyInit' = (onlyInit /\ name = "init")
    /\ everDestroyed' = (everDestroyed \/ name = "destroy")
    /\ destroyed' = (name = "destroy")

\* await manager.init()
InitCall ==
    /\ UserCall("init")
    /\ EnterInit(frames, "init", "none", isInitialized, accessToken, embedUrl)
    /\ UNCHANGED <<accessToken, embedUrl, isInitialized, retryCount, sched, config, caps, wire,
                   linkReqs, authFails, linkFails, tokensIssued, nSuccess, nError,
                   refreshMark>>

\* refresh(), by the user (kind "refresh") or by the timer (kind "timer")
Refresh(kind) ==
    /\ isInitialized' = FALSE
    /\ accessToken' = Null
    /\ embedUrl' = Null
    /\ retryCount' = 0
    /\ refreshMark' = tokensIssued
    /\ EnterInit(frames, kind, "none", FALSE, Null, Null)

\* await manager.refresh()
RefreshCall ==
    /\ UserCall("refresh")
    /\ Refresh("refresh")
    /\ UNCHANGED <<sched, config, caps, wire, linkReqs, authFails, linkFails, tokensIssued,
                   nSuccess, nError>>

\* await manager.render(target, {mode: m})
Render(m) ==
    /\ UserCall("render")
    /\ IF ~isInitialized
       THEN EnterInit(frames, "render", m, isInitialized, accessToken, embedUrl)
       ELSE /\ frames' = ContFrames(frames, "render", m, "success", embedUrl)
            /\ ev' = ContEvent("render", m, "success", 0, embedUrl, accessToken)
            /\ UNCHANGED <<isLoading, authReqs>>
    /\ UNCHANGED <<accessToken, embedUrl, isInitialized, retryCount, sched, config,
                   caps, wire, linkReqs, authFails, linkFails, tokensIssued, nSuccess,
                   nError, refreshMark>>

RenderCall == \E m \in OptModes : Render(m)

\* DestroyCall as it would be if destroy() did not reset isLoading
DestroyKeepsLoading ==
    /\ UserCall("destroy")
    /\ isInitialized' = FALSE
    /\ accessToken' = Null
    /\ embedUrl' = Null
    /\ timers' = ClearedTimers(timers, refreshTimeout)
    /\ refreshTimeout' = Null
    /\ frames' = DestroyFrames(frames)
    /\ ev' = Quiet
    /\ UNCHANGED <<isLoading, retryCount, config, caps, wire, counters, refreshMark>>

\* manager.destroy()
DestroyCall ==
    /\ UserCall("destroy")
    /\ isInitialized' = FALSE
    /\ accessToken' = Null
    /\ embedUrl' = Null
    /\ isLoading' = FALSE
    /\ timers' = ClearedTimers(timers, refreshTimeout)
    /\ refreshTimeout' = Null
    /\ frames' = DestroyFrames(frames)
    /\ ev' = Quiet
    /\ UNCHANGED <<retryCount, config, caps, wire, counters, refreshMark>>

\* the callback of _scheduleTokenRefresh runs. A pending timer may fire at any
\* moment: a delay <= 0 elapses at once, and a positive one is not bounded from
\* below by the requests, which in node and react-native have no timeout.
TimerFire ==
    \E t \in timers :
        /\ timers' = timers \ {t}
        /\ Refresh("timer")
        /\ UNCHANGED <<refreshTimeout, config, caps, wire, linkReqs, authFails, linkFails,
                       tokensIssued, nSuccess, nError, nCalls, onlyInit,
                       everDestroyed, destroyed>>

\* /auth/authenticate answers with a token: _authenticate stores it and schedules
\* the refresh, then _generateEmbedLink sends its request
AuthOk ==
    \E f \in Suspended, e \in ExpiresInValues :
        /\ f.pc = "auth"
        /\ apiKeyValid
        /\ tokensIssued' = tokensIssued + 1
        /\ accessToken' = tokensIssued'
        /\ timers' = ScheduledTimers(timers, refreshTimeout, tokensIssued',
                                     ExpiresInOrDefault(e))
        /\ refreshTimeout' = tokensIssued'
        /\ linkReqs' = linkReqs + 1
        /\ frames' = Put(Without(f), [f EXCEPT !.pc = "link", !.bearer = accessToken'])
        /\ ev' = Quiet
        /\ UNCHANGED <<embedUrl, isInitialized, isLoading, retryCount, config, caps, wire,
                       authReqs, authFails, linkFails, nSuccess, nError, history>>

\* the catch block of init(), the error being the `errs`-th failure
Fail(f, errs) ==
    /\ isLoading' = FALSE
    /\ IF CanRetry(retryCount)
       THEN /\ retryCount' = retryCount + 1
            /\ frames' = Put(Without(f), [f EXCEPT !.pc = "backoff",
                                                    !.bearer = Null,
                                                    !.ms = BackoffMs(retryCount')])
            /\ nError' = nError
            /\ ev' = Quiet
       ELSE /\ retryCount' = retryCount
            /\ frames' = ContFrames(Without(f), f.kind, f.mode,
                                    "rejected", embedUrl)
            /\ nError' = ContErrors(f.kind, "rejected", nError + 1)
            /\ ev' = ContEvent(f.kind, f.mode, "rejected", errs,
                               embedUrl, accessToken)

\* AuthFail as it would be if init() went on to _generateEmbedLink after a
\* failed _authenticate
AuthFailGoesOn ==
    \E f \in Suspended :
        /\ f.pc = "auth"
        /\ authFails' = authFails + 1
        /\ linkReqs' = linkReqs + 1
        /\ frames' = Put(Without(f), [f EXCEPT !.pc = "link", !.bearer = accessToken])
        /\ ev' = Quiet
        /\ UNCHANGED <<session, sched, config, caps, wire, authReqs, linkFails,
                       tokensIssued, nSuccess, nError, history>>

\* /auth/authenticate fails (HTTP error, success false, no token, bad JSON)
AuthFail ==
    \E f \in Suspended :
        /\ f.pc = "auth"
        /\ authFails' = authFails + 1
        /\ Fail(f, authFails' + linkFails)
        /\ UNCHANGED <<accessToken, embedUrl, isInitialized, sched, config, caps, wire,
                       authReqs, linkReqs, linkFails, tokensIssued, nSuccess, history>>

\* /embed/generate-link answers with a URL: init() completes and notifies
\* onSuccess inside its try block, so that an exception leaving
\* _triggerCallback would land in the catch block (retryCount 0 -> 1, backoff)
LinkOk ==
    \E f \in Suspended :
        /\ f.pc = "link"
        /\ embedUrl' = UrlFor(f.bearer)
        /\ isInitialized' = TRUE
        /\ isLoading' = FALSE
        /\ nSuccess' = nSuccess + 1
        /\ IF TriggerCallback(observer) = "thrown"
           THEN /\ retryCount' = 1
                /\ frames' = Put(Without(f), [f EXCEPT !.pc = "backoff",
                                                        !.bearer = Null,
                                                        !.ms = BackoffMs(1)])
                /\ ev' = Quiet
           ELSE /\ retryCount' = 0
                /\ frames' = ContFrames(Without(f), f.kind, f.mode,
                                        "success", embedUrl')
                /\ ev' = ContEvent(f.kind, f.mode, "success", 0,
                                   embedUrl', accessToken)
        /\ UNCHANGED <<accessToken, sched, config, caps, wire, authReqs, linkReqs, authFails,
                       linkFails, tokensIssued, nError, history>>

\* /embed/generate-link fails
LinkFail ==
    \E f \in Suspended :
        /\ f.pc = "link"
        /\ linkFails' = linkFails + 1
        /\ Fail(f, authFails + linkFails')
        /\ UNCHANGED <<accessToken, embedUrl, isInitialized, sched, config, caps, wire,
                       authReqs, linkReqs, authFails, tokensIssued, nSuccess, history>>

\* the backoff delay elapses: return this.init()
BackoffEnd ==
    \E f \in Suspended :
        /\ f.pc = "backoff"
        /\ EnterInit(Without(f), f.kind, f.mode,
                     isInitialized, accessToken, embedUrl)
        /\ UNCHANGED <<accessToken, embedUrl, isInitialized, retryCount, sched, config, caps, wire,
                       linkReqs, authFails, linkFails, tokensIssued, nSuccess, nError,
                       history>>

\* the iframe of _renderIframe fires "load": onLoad is notified and render()
\* returns its descriptor
IframeLoad ==
    \E f \in Suspended :
        /\ f.pc = "iframe"
        /\ frames' = Without(f)
        /\ ev' = IF TriggerCallback(observer) = "thrown"
                 THEN Event("rejected", "render", "observer", Null, Null, 0)
                 ELSE Event("rendered", "render", "iframe", embedUrl, accessToken, 0)
        /\ UNCHANGED <<session, sched, config, caps, wire, counters, history>>

\* the iframe fires "error" or does not load within config.timeout
IframeError ==
    \E f \in Suspended :
        /\ f.pc = "iframe"
        /\ frames' = Without(f)
        /\ nError' = nError + 1
        /\ ev' = Event("rejected", "render", "iframe", Null, Null, 0)
        /\ UNCHANGED <<session, sched, config, caps, wire, authReqs, linkReqs, authFails,
                       linkFails, tokensIssued, nSuccess, history>>

\* The state after `new SintesisPasarelaCore(config)`: with autoInit the
\* constructor has already called init(), whose authenticate request is in flight.
Constructed(envs, modes, autos, keys, observers, budgets) ==
    /\ environment \in envs
    /\ configMode \in modes
    /\ autoInit \in autos
    /\ apiKeyValid \in keys
    /\ observer \in observers
    /\ client = "universal"
    /\ accessToken = Null
    /\ embedUrl = Null
    /\ isInitialized = FALSE
    /\ isLoading = autoInit
    /\ retryCount = 0
    /\ refreshTimeout = Null
    /\ timers = {}
    /\ frames = IF autoInit THEN SetToBag({Frame("ctor", "auth", Null, 0, "none")})
                            ELSE EmptyBag
    /\ authReqs = IF autoInit THEN 1 ELSE 0
    /\ linkReqs = 0
    /\ authFails = 0
    /\ linkFails = 0
    /\ tokensIssued = 0
    /\ nSuccess = 0
    /\ nError = 0
    /\ \E b \in budgets : callCap = b[1] /\ attemptCap = b[2]
    /\ nCalls = 0
    /\ onlyInit = TRUE
    /\ everDestroyed = FALSE
    /\ destroyed = FALSE
    /\ refreshMark = -1
    /\ ev = Quiet

Init ==
    /\ Constructed(Environments, ConfigModes, BOOLEAN, BOOLEAN, {"returns"}, Budgets)
    /\ wire = IdleWire(TRUE, DefaultTimeout)

Next ==
    \/ InitCall
    \/ RefreshCall
    \/ RenderCall
    \/ DestroyCall
    \/ TimerFire
    \/ AuthOk
    \/ AuthFail
    \/ LinkOk
    \/ LinkFail
    \/ BackoffEnd
    \/ IframeLoad
    \/ IframeError

Spec == Init /\ [][Next]_vars

\* render() with every options.mode, on a manager of every environment and
\* configured mode, whose backend may fail and whose refresh timer may fire
RenderInit ==
    /\ Constructed(AllEnvironments, AllModes, BOOLEAN, {TRUE}, {"returns"},
                   {<<RenderCalls, RenderAttempts>>})
    /\ wire = IdleWire(TRUE, DefaultTimeout)

RenderAny == \E m \in AllOptModes : Render(m)

RenderNext ==
    \/ RenderAny
    \/ TimerFire
    \/ AuthOk
    \/ AuthFail
    \/ LinkOk
    \/ LinkFail
    \/ BackoffEnd
    \/ IframeLoad
    \/ IframeError

RenderSpec == RenderInit /\ [][RenderNext]_vars

\* ------------------------------------------- UniversalHttpClient.request

lifecycle == <<session, sched, frames, config, caps, counters, history, ev>>

\* request(endpoint, options) up to its await of the fetch
Request ==
    \E c \in Calls :
        /\ wire.pc \in {"idle", "returned", "failed"}
        /\ wire' = [wire EXCEPT
                        !.pc = "fetch",
                        !.endpoint = c.endpoint,
                        !.method = RequestMethod(c.options),
                        !.headers = RequestHeaders(c.options),
                        !.timer = AbortTimer(environment, wire.controller,
                                             wire.timeout),
                        !.status = 0, !.body = "",
                        !.result = "none", !.cause = ""]
        /\ UNCHANGED lifecycle

\* the server answers: fetch resolves with the response
Respond ==
    \E st \in Statuses, b \in Bodies :
        /\ wire.pc = "fetch"
        /\ wire' = IF ChecksStatus(environment) /\ ~IsOk(st)
                   THEN Failed([wire EXCEPT !.status = st, !.body = b], "http")
                   ELSE [wire EXCEPT !.pc = "parse", !.timer = Null,
                                     !.status = st, !.body = b]
        /\ UNCHANGED lifecycle

\* the connection fails (or node-fetch cannot be imported): fetch rejects
ConnFail ==
    /\ wire.pc = "fetch"
    /\ wire' = Failed(wire, FetchFailure(environment, "connection"))
    /\ UNCHANGED lifecycle

\* the abort timer of _browserFetch fires: fetch rejects
Abort ==
    /\ wire.pc = "fetch"
    /\ wire.timer # Null
    /\ wire' = Failed(wire, "abort")
    /\ UNCHANGED lifecycle

\* _parseResponse: JSON.parse(await response.text())
Parse ==
    /\ wire.pc = "parse"
    /\ wire' = IF wire.body = "json"
               THEN [wire EXCEPT !.pc = "returned", !.result = "json"]
               ELSE Failed(wire, "json")
    /\ UNCHANGED lifecycle

\* a manager that has issued no request, in each environment
TransportInit ==
    /\ Constructed(AllEnvironments, ConfigModes, {FALSE}, {TRUE},
                   {"returns"}, {<<0, 0>>})
    /\ \E c \in BOOLEAN, t \in TimeoutValues :
          wire = IdleWire(c, ConfigTimeout(t))

TransportNext == Request \/ Respond \/ ConnFail \/ Abort \/ Parse

\* a server may stay silent for ever; an armed timer fires and a response that
\* has arrived gets parsed
TransportSpec ==
    /\ TransportInit
    /\ [][TransportNext]_vars
    /\ WF_vars(Abort)
    /\ WF_vars(Parse)

\* the same manager with observers that may throw, under a smaller budget
ObserverInit ==
    /\ Constructed(Environments, ConfigModes, BOOLEAN, BOOLEAN, ObserverBehaviours,
                   {<<ObserverCalls, ObserverAttempts>>})
    /\ wire = IdleWire(TRUE, DefaultTimeout)

ObserverSpec == ObserverInit /\ [][Next]_vars

\* ------------------------------------------- SintesisPasarela (1.0.0)

\* init() entered by a call of kind `kind`: no guard, the authenticate request
\* is sent at once
V1Init(rest, kind) ==
    /\ authReqs < attemptCap
    /\ authReqs' = authReqs + 1
    /\ frames' = Put(rest, Frame(kind, "auth", Null, 0, "none"))
    /\ ev' = Quiet

\* render() past its init(): the container is looked up and the iframe with
\* src = embedUrl is appended and returned
V1Rendered(container, url, tok) ==
    IF container = "found"
    THEN Event("rendered", "render", "iframe", url, tok, 0)
    ELSE Event("rejected", "render", "container", Null, Null, 0)

\* what the caller of init() sees when it has settled: the constructor does
\* not handle the rejection, render() goes on or rejects with it
V1Settled(kind, container, out, err, url, tok) ==
    CASE kind = "render" /\ out = "success" -> V1Rendered(container, url, tok)
      [] kind = "ctor" /\ out = "rejected" ->
            Event("unhandled", kind, out, Null, Null, err)
      [] OTHER ->
            Event(IF out = "rejected" THEN "rejected" ELSE "resolved",
                  kind, out, url, tok, err)

\* await pasarela.init()
V1InitCall ==
    /\ client = "v1"
    /\ UserCall("init")
    /\ V1Init(frames, "init")
    /\ UNCHANGED <<session, sched, config, caps, wire, linkReqs, authFails,
                   linkFails, tokensIssued, nSuccess, nError, refreshMark>>

\* await pasarela.refresh()
V1RefreshCall ==
    /\ client = "v1"
    /\ UserCall("refresh")
    /\ isInitialized' = FALSE
    /\ accessToken' = Null
    /\ embedUrl' = Null
    /\ refreshMark' = tokensIssued
    /\ V1Init(frames, "refresh")
    /\ UNCHANGED <<isLoading, retryCount, sched, config, caps, wire, linkReqs,
                   authFails, linkFails, tokensIssued, nSuccess, nError>>

\* await pasarela.render(container)
V1RenderCall ==
    \E c \in Containers :
        /\ client = "v1"
        /\ UserCall("render")
        /\ IF ~isInitialized
           THEN V1Init(frames, "render")
           ELSE /\ ev' = V1Rendered(c, embedUrl, accessToken)
                /\ UNCHANGED <<frames, authReqs>>
        /\ UNCHANGED <<session, sched, config, caps, wire, linkReqs, authFails,
                       linkFails, tokensIssued, nSuccess, nError, refreshMark>>

\* /auth/authenticate answers with a token: _authenticate stores it, then
\* _generateEmbedLink sends its request with it
V1AuthOk ==
    \E f \in Suspended :
        /\ client = "v1"
        /\ f.pc = "auth"
        /\ apiKeyValid
        /\ tokensIssued' = tokensIssued + 1
        /\ accessToken' = tokensIssued'
        /\ linkReqs' = linkReqs + 1
        /\ frames' = Put(Without(f), [f EXCEPT !.pc = "link", !.bearer = accessToken'])
        /\ ev' = Quiet
        /\ UNCHANGED <<embedUrl, isInitialized, isLoading, retryCount, sched, config,
                       caps, wire, authReqs, authFails, linkFails, nSuccess, nError,
                       history>>

\* the catch block of init(): _handleError notifies onError and throws again
V1Fail(f, errs) ==
    /\ frames' = Without(f)
    /\ nError' = nError + 1
    /\ ev' = V1Settled(f.kind, "found", "rejected", errs, Null, Null)

\* /auth/authenticate fails
V1AuthFail ==
    \E f \in Suspended :
        /\ client = "v1"
        /\ f.pc = "auth"
        /\ authFails' = authFails + 1
        /\ V1Fail(f, authFails' + linkFails)
        /\ UNCHANGED <<session, sched, config, caps, wire, authReqs, linkReqs,
                       linkFails, tokensIssued, nSuccess, history>>

\* /embed/generate-link answers with a URL: init() completes and notifies
\* onSuccess
V1LinkOk ==
    \E f \in Suspended, c \in Containers :
        /\ client = "v1"
        /\ f.pc = "link"
        /\ embedUrl' = UrlFor(f.bearer)
        /\ isInitialized' = TRUE
        /\ nSuccess' = nSuccess + 1
        /\ frames' = Without(f)
        /\ ev' = V1Settled(f.kind, c, "success", 0, embedUrl', accessToken)
        /\ UNCHANGED <<accessToken, isLoading, retryCount, sched, config, caps, wire,
                       authReqs, linkReqs, authFails, linkFails, tokensIssued,
                       nError, history>>

\* /embed/generate-link fails
V1LinkFail ==
    \E f \in Suspended :
        /\ client = "v1"
        /\ f.pc = "link"
        /\ linkFails' = linkFails + 1
        /\ V1Fail(f, authFails + linkFails')
        /\ UNCHANGED <<session, sched, config, caps, wire, authReqs, linkReqs,
                       authFails, tokensIssued, nSuccess, history>>

\* The state after `new SintesisPasarela(config)`: autoInit has called init()
V1Constructed(autos, keys, budgets) ==
    /\ environment = "web"
    /\ configMode = "iframe"
    /\ autoInit \in autos
    /\ apiKeyValid \in keys
    /\ observer = "returns"
    /\ client = "v1"
    /\ accessToken = Null
    /\ embedUrl = Null
    /\ isInitialized = FALSE
    /\ isLoading = FALSE
    /\ retryCount = 0
    /\ refreshTimeout = Null
    /\ timers = {}
    /\ frames = IF autoInit THEN SetToBag({Frame("ctor", "auth", Null, 0, "none")})
                            ELSE EmptyBag
    /\ authReqs = IF autoInit THEN 1 ELSE 0
    /\ linkReqs = 0
    /\ authFails = 0
    /\ linkFails = 0
    /\ tokensIssued = 0
    /\ nSuccess = 0
    /\ nError = 0
    /\ \E b \in budgets : callCap = b[1] /\ attemptCap = b[2]
    /\ nCalls = 0
    /\ onlyInit = TRUE
    /\ everDestroyed = FALSE
    /\ destroyed = FALSE
    /\ refreshMark = -1
    /\ ev = Quiet

\* a manager of either class
ClientsInit ==
    /\ \/ Constructed(Environments, ConfigModes, BOOLEAN, BOOLEAN, {"returns"},
                       {<<ClientCalls, ClientAttempts>>})
       \/ V1Constructed(BOOLEAN, BOOLEAN, {<<ClientCalls, ClientAttempts>>})
    /\ wire = IdleWire(TRUE, DefaultTimeout)

V1Next ==
    \/ V1InitCall
    \/ V1RefreshCall
    \/ V1RenderCall
    \/ V1AuthOk
    \/ V1AuthFail
    \/ V1LinkOk
    \/ V1LinkFail

\* the steps of the class the manager is an instance of
ClientsNext ==
    \/ client = "universal" /\ InitCall
    \/ client = "universal" /\ RefreshCall
    \/ client = "universal" /\ RenderCall
    \/ client = "universal" /\ DestroyCall
    \/ client = "universal" /\ TimerFire
    \/ client = "universal" /\ AuthOk
    \/ client = "universal" /\ AuthFail
    \/ client = "universal" /\ LinkOk
    \/ client = "universal" /\ LinkFail
    \/ client = "universal" /\ BackoffEnd
    \/ client = "universal" /\ IframeLoad
    \/ client = "universal" /\ IframeError
    \/ V1Next

ClientsSpec == ClientsInit /\ [][ClientsNext]_vars

\* --------------------------------------------------------------- claims

\* the number of suspended calls whose position is one of `pcs`
NumWith(pcs) ==
    BagCardinality([f \in {g \in Suspended : g.pc \in pcs} |-> frames[f]])

\* the user has made one call, init(), on a manager that did not auto-init
Solo == ~autoInit /\ nCalls = 1 /\ onlyInit

\* the last task settled the user's init() call
InitSettled == ev.kind = "init" /\ ev.type \in {"resolved", "rejected"}

\* the session is Ready
Ready == isInitialized /\ accessToken # Null /\ embedUrl # Null

\* C1: in every reachable state isInitialized implies that accessToken and
\* embedUrl are both set.
C1_InitializedHasBoth ==
    isInitialized => accessToken # Null /\ embedUrl # Null

\* C2: on a healthy backend, init() on a fresh manager issues one authenticate
\* and one generate-link request, notifies onSuccess once, and when it resolves
\* getStatus() reports isInitialized, hasAccessToken and hasEmbedUrl.
C2_HealthyInit ==
    (Solo /\ InitSettled /\ authFails = 0 /\ linkFails = 0) =>
        /\ ev.type = "resolved"
        /\ authReqs = 1
        /\ linkReqs = 1
        /\ nSuccess = 1
        /\ isInitialized
        /\ accessToken # Null
        /\ embedUrl # Null

\* C3: every RenderResult render() returns carries the non-empty embed URL of a
\* Ready session.
C3_RenderOnReady ==
    ev.type = "rendered" => ev.url # Null

\* C4: on a backend where every attempt fails, init() on a fresh manager makes
\* maxRetries + 1 attempts, then rejects with the error of the last attempt;
\* onError is notified once, and isInitialized and isLoading end false.
C4_ExhaustedInit ==
    (Solo /\ nSuccess = 0) =>
        /\ authReqs <= maxRetries + 1
        /\ InitSettled =>
              /\ ev.type = "rejected"
              /\ authReqs = maxRetries + 1
              /\ ev.err = authFails + linkFails
              /\ nError = 1
              /\ ~isInitialized
              /\ ~isLoading

\* the backend has failed authentication on the first requests, twice at most,
\* and nothing else
FailsAuthTwice ==
    /\ linkFails = 0
    /\ authFails <= 2
    /\ (authFails < 2 => tokensIssued = 0)

\* C5: when authentication fails twice and then succeeds, init() resolves after
\* 2 retries (3 attempts, each from authentication), having waited 1000 ms and
\* then 2000 ms, and retryCount is 0 once Ready.
C5_RetryTwice ==
    (Solo /\ FailsAuthTwice) =>
        /\ \A f \in Suspended :
              f.kind = "init" /\ f.pc = "backoff" =>
                  /\ f.ms = 1000 * authFails
                  /\ retryCount = authFails
                  /\ authReqs = authFails
                  /\ linkReqs = 0
        /\ InitSettled =>
              /\ ev.type = "resolved"
              /\ ev.val = "success"
              /\ authFails = 2
              /\ authReqs = 3
              /\ linkReqs = 1
              /\ retryCount = 0
              /\ isInitialized

C5_Witness ==
    /\ Solo
    /\ FailsAuthTwice
    /\ InitSettled
    /\ ev.val = "success"
    /\ authFails = 2
    /\ authReqs = 3

\* C6: init() called while isLoading, or while the session is Ready, returns at
\* once: no request, no observer notified, the session fields, the suspended
\* calls and the refresh timer unchanged.
C6_InitNoOp ==
    [][(InitCall /\ (isLoading \/ Ready)) =>
          /\ UNCHANGED <<session, sched, frames, counters>>
          /\ ev' = Event("resolved", "init", "noop", embedUrl, accessToken, 0)]_vars

C6_Witness ==
    /\ ev.kind = "init"
    /\ ev.val = "noop"
    /\ isLoading
    /\ NumWith({"auth", "link"}) = 1

\* C7: two init sequences never run side by side: at most one call is between
\* the start of its first attempt and its settling, backoff waits included.
C7_OneInitSequence ==
    NumWith({"auth", "link", "backoff"}) <= 1

\* C8: without destroy(), at most one network request of the manager is in
\* flight at any time, whatever init(), refresh(), render() and the timers do.
C8_OneRequestInFlight ==
    ~everDestroyed => NumWith({"auth", "link"}) <= 1

\* a manual refresh() is in flight and the scheduled refresh has just run into it
C8_Witness ==
    /\ ~everDestroyed
    /\ \E f \in Suspended : f.kind = "refresh" /\ f.pc \in {"auth", "link"}
    /\ ev.type = "onTokenExpired"
    /\ NumWith({"auth", "link"}) = 1

\* C9: destroy() cancels no in-flight init and no queued retry: every suspended
\* call is still there after it (and goes on to change the session).
C9_DestroyKeepsInFlight ==
    [][DestroyCall => frames' = frames]_vars

\* destroy() was the user's last call and the session has since become initialized
C9_Witness ==
    /\ destroyed
    /\ isInitialized
    /\ embedUrl # Null
    /\ timers # {}

\* C10: once refresh() has been called, getAccessToken() fails as not
\* initialized or returns a token obtained after that refresh, never the
\* value held before.
C10_NoStaleToken ==
    refreshMark >= 0 =>
        \/ getAccessToken = NotInitialized
        \/ getAccessToken > refreshMark

\* the session as destroy() leaves it
AsDestroyed ==
    /\ ~getStatus.isInitialized
    /\ ~getStatus.isLoading
    /\ ~getStatus.hasAccessToken
    /\ ~getStatus.hasEmbedUrl
    /\ refreshTimeout = Null

\* C11: right after destroy(), from any state, getStatus() reports
\* isInitialized, isLoading, hasAccessToken and hasEmbedUrl all false; and
\* destroy() is idempotent: called on a session as destroy() left it, it
\* changes nothing.
C11_DestroyIdempotent ==
    [][DestroyCall =>
          /\ AsDestroyed'
          /\ AsDestroyed => UNCHANGED <<session, sched, frames, counters>>]_vars

\* destroy() has just run on a session that init() had made Ready
C11_Witness ==
    /\ destroyed
    /\ ev = Quiet
    /\ nSuccess = 1
    /\ refreshMark = -1
    /\ AsDestroyed
    /\ frames = EmptyBag

\* C12: destroy() resets the retry counter: right after destroy(),
\* getStatus().retryCount is 0 whatever it was before.
C12_DestroyResetsRetries ==
    [][DestroyCall => getStatus'.retryCount = 0]_vars

\* destroy() was the user's last call, no init is in flight or in backoff, no
\* refresh is scheduled and the session is not initialized
Dormant ==
    /\ destroyed
    /\ NumWith({"auth", "link", "backoff"}) = 0
    /\ timers = {}
    /\ ~isInitialized

\* C13: destroy() called while a refresh is scheduled and no init is in flight
\* or in backoff cancels the timer; from then on, until the user's next call,
\* the refresh never fires, no request is issued and the session stays
\* un-initialized.
C13_DestroyCancelsRefresh ==
    [][/\ (DestroyCall /\ NumWith({"auth", "link", "backoff"}) = 0) => Dormant'
       /\ (Dormant /\ nCalls' = nCalls) =>
              /\ Dormant'
              /\ authReqs' = authReqs
              /\ linkReqs' = linkReqs
              /\ UNCHANGED <<session, sched>>]_vars

\* destroy() has cancelled the refresh that a Ready session had scheduled,
\* while the iframe of an earlier render() was still loading; it has since
\* loaded
C13_Witness ==
    /\ Dormant
    /\ tokensIssued = 1
    /\ nSuccess = 1
    /\ refreshMark = -1
    /\ ev.type = "rendered"
    /\ ev.val = "iframe"

\* C14: wherever isInitialized is false, getEmbedUrl() and getAccessToken()
\* fail with the not-initialized error, and with no other.
C14_AccessorsNotInitialized ==
    ~isInitialized =>
        /\ getAccessToken = NotInitialized
        /\ getEmbedUrl = NotInitialized

\* refresh() has been called and has not completed: the new token is already
\* held, the session is not initialized, and getAccessToken() fails
C14_Witness ==
    /\ refreshMark >= 0
    /\ ~isInitialized
    /\ accessToken # Null
    /\ getAccessToken = NotInitialized

\* C15: an exception thrown by an observer (onSuccess, onError, onLoad,
\* onTokenExpired) goes no further than _triggerCallback: the init() that
\* notified onSuccess ends Ready with retryCount 0 and no retry queued, and no
\* call or timer callback ends with the observer's exception.
C15_ObserverIsolated ==
    [][/\ LinkOk =>
              /\ isInitialized'
              /\ ~isLoading'
              /\ retryCount' = 0
              /\ NumWith({"backoff"})' = NumWith({"backoff"})
       /\ ev'.val # "observer"]_vars

\* onSuccess has thrown and the user's init() has resolved with its result
C15_Witness ==
    /\ observer = "throws"
    /\ InitSettled
    /\ ev.val = "success"
    /\ nSuccess = 1
    /\ isInitialized
    /\ retryCount = 0

\* C16: in every environment request() fails with the network error when the
\* status is not 2xx, the connection fails or the body is not JSON, and
\* returns the parsed value only for a 2xx response with a JSON body.
C16_NetworkErrorOrJson ==
    /\ wire.pc = "returned" =>
          /\ IsOk(wire.status)
          /\ wire.body = "json"
          /\ wire.result = "json"
    /\ wire.pc = "failed" => wire.result = "network-error"

\* C17: in every environment a request that gets no answer is aborted by the
\* timeout and fails: no request stays in flight for ever.
C17_RequestTimesOut ==
    (wire.pc = "fetch") ~> (wire.pc \in {"returned", "failed"})

\* C18: every request is sent with the header Content-Type.
C18_ContentTypeSent ==
    wire.pc # "idle" => "Content-Type" \in wire.headers

\* the number of copies of the suspended call `f` in the bag `b`
Copies(b, f) == IF f \in BagToSet(b) THEN b[f] ELSE 0

\* the type tag the resolution rule gives for options.mode `m`: the mode given,
\* else the configured one; auto by environment; api-only tagged api
Resolved(m) ==
    LET used == IF m # "none" THEN m ELSE configMode
        concrete == IF used # "auto" THEN used
                    ELSE IF environment = "web" THEN "iframe"
                    ELSE IF environment = "react-native" THEN "webview"
                    ELSE "api-only"
    IN  IF concrete = "api-only" THEN "api" ELSE concrete

\* what a render() with options.mode `m` does once the session is there, `rest`
\* being the other suspended calls: in iframe mode it waits for the iframe to
\* load (web) or fails as unsupported (elsewhere), otherwise it returns a
\* result tagged with the resolved mode
RenderOutcome(m, rest) ==
    IF Resolved(m) = "iframe"
    THEN IF environment = "web"
         THEN /\ frames' = Put(rest, Frame("render", "iframe", embedUrl', 0, m))
              /\ ev' = Quiet
         ELSE /\ frames' = rest
              /\ ev'.type = "rejected"
              /\ ev'.val = "unsupported"
    ELSE /\ frames' = rest
         /\ ev'.type = "rendered"
         /\ ev'.val = Resolved(m)

\* C19: for every options.mode, configured mode and environment, render() uses
\* options.mode when given and the configured mode otherwise, resolves auto by
\* environment (web: iframe, react-native: webview, others: api), tags its
\* result with the mode used, and fails as unsupported for iframe outside web:
\* whether it renders at once, after its own init(), after a retry that found
\* the session there, or when the iframe has loaded.
C19_ModeResolution ==
    [][/\ \A m \in AllOptModes :
              (Render(m) /\ (isInitialized \/ isLoading)) =>
                  RenderOutcome(m, frames)
       /\ \A f \in Suspended :
              (f.kind = "render" /\ Copies(frames', f) < Copies(frames, f)) =>
                  /\ (f.pc = "link" /\ nSuccess' = nSuccess + 1) =>
                        RenderOutcome(f.mode, Without(f))
                  /\ (f.pc = "backoff" /\ authReqs' = authReqs) =>
                        RenderOutcome(f.mode, Without(f))
                  /\ (f.pc = "iframe" /\ ev'.type = "rendered") =>
                        /\ ev'.val = "iframe"
                        /\ Resolved(f.mode) = "iframe"
                        /\ environment = "web"
       /\ ev'.type = "rendered" => ev'.val \in {"iframe", "webview", "api"}
       /\ ev'.val = "unsupported" => environment # "web"]_vars

\* render() with options.mode api-only on a react-native manager configured
\* for iframe has returned a result tagged api, with the embed URL
C19_Witness ==
    /\ ev.type = "rendered"
    /\ ev.val = "api"
    /\ ev.url # Null
    /\ configMode = "iframe"
    /\ environment = "react-native"

\* C20: a refresh timer is scheduled only by an init sequence that reaches
\* Ready: when the user's init() on a fresh manager has been rejected with its
\* retries used up, no refresh timer is pending.
C20_FailedHasNoTimer ==
    (Solo /\ InitSettled /\ ev.type = "rejected") => timers = {}

\* the delay, in ms, that a refresh clamped at zero would get for the hint `e`
ClampedDelay(e) ==
    IF e > RefreshMargin THEN (e - RefreshMargin) * 1000 ELSE 0

\* C21: for every expiry hint the authenticate endpoint returns (1800 when
\* absent), the refresh is scheduled with the delay max(0, hint - 60) seconds,
\* never a negative one; and a refresh scheduled with no delay left (hint of
\* 60 or less) does not fire while the init attempt that scheduled it is still
\* waiting for its generate-link request.
C21_RefreshDelayClamped ==
    [][/\ \A t \in timers' :
              /\ t.ms >= 0
              /\ t.ms \in {ClampedDelay(ExpiresInOrDefault(e)) : e \in ExpiresInValues}
       /\ \A t \in timers \ timers' :
              (TimerFire /\ t.ms <= 0) =>
                  ~\E f \in Suspended : f.pc = "link" /\ f.bearer = t.id]_vars

\* C22: at most one refresh timer is pending, and it is the one scheduled
\* last (the one _refreshTimeout names, armed for the last token issued): a
\* timer scheduled earlier has been cancelled and can no longer fire.
C22_OnePendingTimer ==
    /\ Cardinality(timers) <= 1
    /\ \A t \in timers : t.id = refreshTimeout /\ t.id = tokensIssued

\* a retry has authenticated while the timer of the first attempt was pending
\* (it has not fired: no refresh; nor been cleared: no destroy)
C22_Witness ==
    /\ tokensIssued = 2
    /\ refreshMark = -1
    /\ ~everDestroyed
    /\ Cardinality(timers) = 1

\* C23: in both clients a generate-link request is issued only by an attempt
\* whose authenticate has just succeeded, and carries the token that answer
\* brought; isInitialized becomes true only when a generate-link request has
\* succeeded; and a failed authenticate issues no generate-link request.
C23_AuthThenLink ==
    [][/\ linkReqs' # linkReqs =>
              \E f \in Suspended :
                  /\ f.pc = "auth"
                  /\ tokensIssued' = tokensIssued + 1
                  /\ linkReqs' = linkReqs + 1
                  /\ authFails' = authFails
                  /\ frames' = Put(Without(f), [f EXCEPT !.pc = "link",
                                                          !.bearer = tokensIssued'])
       /\ (isInitialized' /\ ~isInitialized) =>
              \E f \in Suspended :
                  /\ f.pc = "link"
                  /\ f.bearer # Null
                  /\ Copies(frames', f) < Copies(frames, f)
                  /\ linkFails' = linkFails
                  /\ embedUrl' = UrlFor(f.bearer)
       /\ authFails' # authFails =>
              /\ linkReqs' = linkReqs
              /\ NumWith({"link"})' = NumWith({"link"})]_vars

\* SintesisPasarela 1.0.0: the constructor's init() and the user's have
\* overlapped, each has sent generate-link with its own token, and the one
\* that authenticated first has completed last
C23_Witness ==
    /\ client = "v1"
    /\ isInitialized
    /\ linkReqs = 2
    /\ accessToken = 2
    /\ embedUrl = 1
    /\ nSuccess = 2

\* C24: the retry budget is per init() call: an init() called after an
\* earlier init sequence has been rejected with its retries used up, no
\* sequence being in progress, starts its first attempt with retryCount 0
\* (and so makes maxRetries + 1 attempts before it is rejected).
C24_BudgetPerCall ==
    [][(/\ InitCall
        /\ authReqs' = authReqs + 1
        /\ nError > 0
        /\ NumWith({"auth", "link", "backoff"}) = 0) => retryCount = 0]_vars

\* C25: whenever the promise of refresh() resolves, the session is Ready
\* (isInitialized, token and URL set) and its token was obtained after the
\* refresh was requested, also when refresh() was called while an init was
\* loading.
C25_RefreshResolvesReady ==
    (ev.kind = "refresh" /\ ev.type = "resolved") =>
        /\ Ready
        /\ accessToken > refreshMark

\* C26: onTokenExpired is notified (refreshed: true) only once the scheduled
\* refresh has obtained a new token: at that moment the session is Ready and
\* newToken is a token issued after the timer fired; and a scheduled refresh
\* that fails notifies nothing and its error stays inside the timer callback.
C26_TokenExpiredAfterRefresh ==
    /\ ev.type = "onTokenExpired" =>
          /\ Ready
          /\ ev.tok # Null
          /\ ev.tok = accessToken
          /\ ev.tok > refreshMark
    /\ (ev.kind = "timer" /\ ev.val = "rejected") => ev.type = "caught"

\* C27: in every reachable state retryCount is within 0..maxRetries, so that
\* no more than maxRetries + 1 attempts are made between two resets of the
\* counter: in particular while it has not been reset since construction (no
\* init has succeeded, no refresh has run).
C27_RetryCountBounded ==
    /\ retryCount \in 0..maxRetries
    /\ (nSuccess = 0 /\ refreshMark = -1) => authReqs <= maxRetries + 1

====
